---- MODULE Spec2Model ----
(***************************************************************************)
(* Model of tauri-static-deployer (src/src/main.rs): the `main` function   *)
(* with its two commands, Patch and Upload, the namespacing functions, the *)
(* platform model and the config accessors.                                *)
(*                                                                         *)
(* Strings of the program are TLA+ strings; the string functions of the    *)
(* program (format!, ends_with, replace, take, trim, file_name) are        *)
(* computed character by character with Len, SubSeq and \o.                *)
(***************************************************************************)
EXTENDS Integers, Sequences, FiniteSets, TLC

\* ------------------------------------------------------------------ bounds

\* Longest list of regular files found under the release directory.
MaxFiles == 2

\* Most invocations of the program in one behaviour of SpecRuns.
MaxRuns == 2

\* Most platforms in one release notes file read or written by SpecRoundTrip.
MaxPlatforms == 2

\* ------------------------------------------------------- string functions

Min(a, b) == IF a < b THEN a ELSE b

Range(s) == {s[i] : i \in DOMAIN s}

\* The i-th character of s, as a string of length 1.
CharAt(s, i) == SubSeq(s, i, i)

\* str::ends_with
ends_with(s, suffix) ==
    /\ Len(s) >= Len(suffix)
    /\ SubSeq(s, Len(s) - Len(suffix) + 1, Len(s)) = suffix

\* str::replace(from, to) for a single character `from`
RECURSIVE replace(_, _, _)
replace(s, from, to) ==
    IF Len(s) = 0 THEN ""
    ELSE (IF CharAt(s, 1) = from THEN to ELSE CharAt(s, 1))
             \o replace(SubSeq(s, 2, Len(s)), from, to)

\* .chars().take(n).collect()
take(s, n) == SubSeq(s, 1, Min(n, Len(s)))

IsSpace(c) == c \in {" ", "\n", "\r", "\t"}

\* str::trim: leading and trailing whitespace removed
RECURSIVE trim_start(_)
trim_start(s) ==
    IF Len(s) > 0 /\ IsSpace(CharAt(s, 1)) THEN trim_start(SubSeq(s, 2, Len(s))) ELSE s

RECURSIVE trim_end(_)
trim_end(s) ==
    IF Len(s) > 0 /\ IsSpace(CharAt(s, Len(s))) THEN trim_end(SubSeq(s, 1, Len(s) - 1)) ELSE s

trim(s) == trim_end(trim_start(s))

\* Path::file_name of an absolute path of a regular file: the text after the
\* last '/'.
RECURSIVE file_name(_)
file_name(path) ==
    IF \E i \in 1..Len(path) : CharAt(path, i) = "/"
    THEN file_name(SubSeq(path, (CHOOSE i \in 1..Len(path) : CharAt(path, i) = "/") + 1, Len(path)))
    ELSE path

\* ---------------------------------------------------------- platform model

RustTarget == {"Win32", "Win64", "Linux64"}

\* serde_variant::to_variant_name(&target): the #[serde(rename)] of the variant
to_variant_name(target) ==
    CASE target = "Win32"   -> "i686-pc-windows-msvc"
      [] target = "Win64"   -> "x86_64-pc-windows-msvc"
      [] target = "Linux64" -> "x86_64-unknown-linux-gnu"

V1(p) == [gen |-> "V1", p |-> p]
V2(p) == [gen |-> "V2", p |-> p]

ReleasePlatform == {V1(p) : p \in {"Win64", "Win32", "Linux"}}
                       \cup {V2(p) : p \in {"Win64", "Win32", "Linux"}}

\* platform_name with one name for both generations of the 64-bit Windows platform.
platform_name_merged(rp) ==
    CASE rp = V1("Win64") -> "win64"
      [] rp = V1("Win32") -> "win32"
      [] rp = V1("Linux") -> "linux"
      [] rp = V2("Win64") -> "win64"
      [] rp = V2("Win32") -> "windows-i686"
      [] rp = V2("Linux") -> "linux-x86_64"

\* The serialized name of a release platform (#[serde(rename)], untagged).
platform_name(rp) ==
    CASE rp = V1("Win64") -> "win64"
      [] rp = V1("Win32") -> "win32"
      [] rp = V1("Linux") -> "linux"
      [] rp = V2("Win64") -> "windows-x86_64"
      [] rp = V2("Win32") -> "windows-i686"
      [] rp = V2("Linux") -> "linux-x86_64"

Ok(v) == [ok |-> TRUE, val |-> v]

\* to_release_platform with the legacy identifier of Win64 pasted into the Win32 arm.
to_release_platform_pasted(target) ==
    CASE target = "Win32"   -> Ok(<<V1("Win64"), V2("Win32")>>)
      [] target = "Win64"   -> Ok(<<V1("Win64"), V2("Win64")>>)
      [] target = "Linux64" -> Ok(<<V1("Linux"), V2("Linux")>>)

\* to_release_platform refusing the target that has no installer mapping.
to_release_platform_refusing(target) ==
    CASE target = "Win32"   -> Ok(<<V1("Win32"), V2("Win32")>>)
      [] target = "Win64"   -> Ok(<<V1("Win64"), V2("Win64")>>)
      [] target = "Linux64" -> [ok |-> FALSE, val |-> <<>>]

\* RustTarget::to_release_platform: Result<Vec<ReleasePlatform>>
to_release_platform(target) ==
    CASE target = "Win32"   -> Ok(<<V1("Win32"), V2("Win32")>>)
      [] target = "Win64"   -> Ok(<<V1("Win64"), V2("Win64")>>)
      [] target = "Linux64" -> Ok(<<V1("Linux"), V2("Linux")>>)

\* ReleasePlatform::to_installer_str; "unimplemented!" stands for the panic.
to_installer_str(rp) ==
    CASE rp.p = "Win64" -> "x64"
      [] rp.p = "Win32" -> "x86"
      [] rp.p = "Linux" -> "unimplemented!"

\* ------------------------------------------------------------- namespacing

\* The S3 configuration read from the environment.
s3_config == [bucket_subdirectory |-> "sub", actual_domain |-> "https://d.pl"]

\* handle_s3::s3_path_with_subdirectory
s3_path_with_subdirectory(config, key) == config.bucket_subdirectory \o "/" \o key

\* handle_s3::s3_url
s3_url(config, path) == config.actual_domain \o "/" \o path

\* derive_release_base_key with the branch sanitized as Patch sanitizes it.
derive_release_base_key_sanitized(branch_name, target) ==
    replace(replace(replace(branch_name, "/", "_"), " ", "_"), ":", "_")
        \o "/" \o to_variant_name(target)

derive_release_base_key(branch_name, target) ==
    branch_name \o "/" \o to_variant_name(target)

\* derive_release_file_s3_key with another file name.
derive_release_file_s3_key_renamed(branch_name, target) ==
    derive_release_base_key(branch_name, target) \o "/release_notes.json"

derive_release_file_s3_key(branch_name, target) ==
    derive_release_base_key(branch_name, target) \o "/release-notes.json"

derive_release_file_s3_url(branch_name, target, config) ==
    s3_url(config,
           s3_path_with_subdirectory(config, derive_release_file_s3_key(branch_name, target)))

derive_binary_file_s3_key(conf, target, branch_name, binary_file_path, git_commit_hash) ==
    derive_release_base_key(branch_name, target)
        \o "/" \o conf.package.version
        \o "/" \o git_commit_hash
        \o "/" \o file_name(binary_file_path)

\* ------------------------------------------------------------ environment

\* `git branch --show-current`, as metadata::current_branch returns it.
Branches == {"m", "f/x y:z"}

\* stdout of `git rev-parse HEAD`; "" when git gives no commit.
GitOutputs == {"", "0123456789ab\n"}

\* Absolute paths of the regular files that may lie under the release directory.
FilePool == {"/b/a.zip", "/b/a.zip.sig", "/b/b.zip"}

\* The lists of distinct files a walk of the release directory may yield.
FileLists ==
    {s \in UNION {[1..n -> FilePool] : n \in 0..MaxFiles} :
        \A i, j \in DOMAIN s : i # j => s[i] # s[j]}

\* An endpoint that is not the manifest URL of any branch and target.
OtherEndpoint == "https://o.pl/r.json"

\* The updater.endpoints lists tauri.conf.json may hold before the program runs.
EndpointLists(b, t) ==
    LET own == derive_release_file_s3_url(b, t, s3_config)
    IN  {<<>>, <<OtherEndpoint>>, <<own>>, <<OtherEndpoint, own>>, <<own, OtherEndpoint>>}

\* tauri.conf.json as TauriConfJson holds it; `rest` are the flattened fields.
ConfJson(endpoints, identifier) ==
    [package |-> [product_name |-> "app", version |-> "1.2.3"],
     tauri   |-> [updater |-> [endpoints |-> endpoints, rest |-> "updater-rest"],
                  bundle  |-> [identifier |-> identifier, rest |-> "bundle-rest"],
                  rest    |-> "tauri-rest"],
     rest    |-> "conf-rest"]

\* ------------------------------------------------------ release notes file

IsDigit(c) == c \in {"0", "1", "2", "3", "4", "5", "6", "7", "8", "9"}

DigitVal(c) == CHOOSE n \in 0..9 : SubSeq("0123456789", n + 1, n + 1) = c

DigitChar(n) == SubSeq("0123456789", n + 1, n + 1)

\* The value of a string of digits.
RECURSIVE number(_)
number(s) ==
    IF s = "" THEN 0
    ELSE 10 * number(SubSeq(s, 1, Len(s) - 1)) + DigitVal(CharAt(s, Len(s)))

\* n written with w digits.
RECURSIVE padded(_, _)
padded(n, w) == IF w = 0 THEN "" ELSE padded(n \div 10, w - 1) \o DigitChar(n % 10)

RECURSIVE trim_zeros(_)
trim_zeros(s) ==
    IF s # "" /\ CharAt(s, Len(s)) = "0" THEN trim_zeros(SubSeq(s, 1, Len(s) - 1)) ELSE s

\* The number of digits s starts with.
RECURSIVE digits_len(_)
digits_len(s) ==
    IF s # "" /\ IsDigit(CharAt(s, 1)) THEN 1 + digits_len(SubSeq(s, 2, Len(s))) ELSE 0

days_in_month(year, month) ==
    IF month = 2
    THEN IF year % 4 = 0 /\ (year % 100 # 0 \/ year % 400 = 0) THEN 29 ELSE 28
    ELSE IF month \in {4, 6, 9, 11} THEN 30 ELSE 31

\* OffsetDateTime::format(&Rfc3339) of a date in the years 0..9999 with an
\* offset of whole minutes: the subsecond is written without trailing zeros
\* and left out when zero, the UTC offset is written as "Z".
format_rfc3339(dt) ==
    padded(dt.year, 4) \o "-" \o padded(dt.month, 2) \o "-" \o padded(dt.day, 2)
        \o "T" \o padded(dt.hour, 2) \o ":" \o padded(dt.minute, 2)
        \o ":" \o padded(dt.second, 2)
        \o (IF dt.nanosecond = 0 THEN "" ELSE "." \o trim_zeros(padded(dt.nanosecond, 9)))
        \o (IF dt.offset = 0 THEN "Z"
            ELSE (IF dt.offset < 0 THEN "-" ELSE "+")
                     \o padded((IF dt.offset < 0 THEN -dt.offset ELSE dt.offset) \div 60, 2)
                     \o ":"
                     \o padded((IF dt.offset < 0 THEN -dt.offset ELSE dt.offset) % 60, 2))

\* OffsetDateTime::parse(&date, &Rfc3339): 'T' and 'Z' in either case, any
\* number of subsecond digits of which nine count, an offset of hours and
\* minutes.
parse_rfc3339(s) ==
    LET rest == SubSeq(s, 20, Len(s))
        nfrac == IF rest # "" /\ CharAt(rest, 1) = "."
                 THEN digits_len(SubSeq(rest, 2, Len(rest))) ELSE 0
        frac == SubSeq(rest, 2, 1 + nfrac)
        zone == IF rest # "" /\ CharAt(rest, 1) = "."
                THEN SubSeq(rest, 2 + nfrac, Len(rest)) ELSE rest
        shaped ==
            /\ Len(s) >= 20
            /\ \A i \in {1, 2, 3, 4, 6, 7, 9, 10, 12, 13, 15, 16, 18, 19} : IsDigit(CharAt(s, i))
            /\ CharAt(s, 5) = "-" /\ CharAt(s, 8) = "-"
            /\ CharAt(s, 11) \in {"T", "t"}
            /\ CharAt(s, 14) = ":" /\ CharAt(s, 17) = ":"
            /\ (CharAt(rest, 1) = ".") => nfrac >= 1
            /\ \/ zone \in {"Z", "z"}
               \/ /\ Len(zone) = 6
                  /\ CharAt(zone, 1) \in {"+", "-"}
                  /\ \A i \in {2, 3, 5, 6} : IsDigit(CharAt(zone, i))
                  /\ CharAt(zone, 4) = ":"
        year == number(SubSeq(s, 1, 4))
        month == number(SubSeq(s, 6, 7))
        day == number(SubSeq(s, 9, 10))
        hour == number(SubSeq(s, 12, 13))
        minute == number(SubSeq(s, 15, 16))
        second == number(SubSeq(s, 18, 19))
        off_h == IF Len(zone) = 6 THEN number(SubSeq(zone, 2, 3)) ELSE 0
        off_m == IF Len(zone) = 6 THEN number(SubSeq(zone, 5, 6)) ELSE 0
    IN  IF /\ shaped
           /\ month \in 1..12
           /\ day \in 1..days_in_month(year, month)
           /\ hour <= 23 /\ minute <= 59 /\ second <= 59
           /\ off_h <= 23 /\ off_m <= 59
        THEN Ok([year |-> year, month |-> month, day |-> day,
                 hour |-> hour, minute |-> minute, second |-> second,
                 nanosecond |-> number(SubSeq(frac \o "000000000", 1, 9)),
                 offset |-> IF Len(zone) = 6 /\ CharAt(zone, 1) = "-"
                            THEN -(off_h * 60 + off_m)
                            ELSE off_h * 60 + off_m])
        ELSE [ok |-> FALSE, val |-> <<>>]

\* The members a ReleaseNotes document must have.
ReleaseNotesFields == {"version", "notes", "pub_date", "platforms"}

\* The untagged ReleasePlatform read from a map key: V1 is tried before V2.
platform_of_key(key) ==
    IF \E rp \in ReleasePlatform : rp.gen = "V1" /\ platform_name(rp) = key
    THEN CHOOSE rp \in ReleasePlatform : rp.gen = "V1" /\ platform_name(rp) = key
    ELSE CHOOSE rp \in ReleasePlatform : rp.gen = "V2" /\ platform_name(rp) = key

\* serde_json::to_string_pretty(&ReleaseNotes), as the JSON object written: its
\* members and their values.
serialize(notes) ==
    [version |-> notes.version,
     notes |-> notes.notes,
     pub_date |-> format_rfc3339(notes.pub_date),
     platforms |-> {[key |-> platform_name(e.platform), url |-> e.url,
                     signature |-> e.signature] : e \in notes.platforms}]

\* serde_json::from_str::<ReleaseNotes>: the four members are required, other
\* members are skipped, every platform key has to name a variant.
deserialize(doc) ==
    IF /\ ReleaseNotesFields \subseteq DOMAIN doc
       /\ parse_rfc3339(doc.pub_date).ok
       /\ \A e \in doc.platforms : \E rp \in ReleasePlatform : platform_name(rp) = e.key
    THEN Ok([version |-> doc.version,
             notes |-> doc.notes,
             pub_date |-> parse_rfc3339(doc.pub_date).val,
             platforms |-> {[platform |-> platform_of_key(e.key), url |-> e.url,
                             signature |-> e.signature] : e \in doc.platforms}])
    ELSE [ok |-> FALSE, val |-> <<>>]

\* The dates of the ReleaseNotes values that are serialized.
Dates ==
    {[year |-> 2022, month |-> 2, day |-> 28, hour |-> 23, minute |-> 59, second |-> 7,
      nanosecond |-> n, offset |-> o] :
        n \in {0, 1, 500000000, 123456789}, o \in {0, 60, -90}}

\* The ReleaseNotes values that are serialized (test_generated_release_works).
ReleaseNotesValues ==
    {[version |-> "1.2.3", notes |-> "test", pub_date |-> d,
      platforms |-> {[platform |-> rp, url |-> "https://d.pl/a.zip", signature |-> "sig"] :
                        rp \in S}] :
        d \in Dates, S \in {T \in SUBSET ReleasePlatform : Cardinality(T) <= MaxPlatforms}}

\* The pub_date members of the documents that are parsed.
PubDates ==
    {"2022-02-28T23:59:07Z", "2022-02-28T23:59:07+00:00", "2022-02-28T23:59:07.5Z",
     "2022-02-28T23:59:07.50Z", "2022-02-28t23:59:07z",
     "2022-02-28T23:59:07.123456789+01:00", "2022-02-28T23:59:07-01:30",
     "2022-02-30T23:59:07Z", "2022-02-28 23:59:07"}

\* The platform keys of the documents that are parsed.
PlatformKeys ==
    {"win64", "win32", "linux", "windows-x86_64", "windows-i686", "linux-x86_64", "darwin"}

\* The release-notes.json documents that are parsed
\* (check_current_release_file_works): with the four members, with
\* the deprecated `name` as well, and without `notes`.
Documents ==
    UNION {
        {[version |-> "1.2.3", notes |-> "test", pub_date |-> d, platforms |-> p],
         [name |-> "app", version |-> "1.2.3", notes |-> "test", pub_date |-> d,
          platforms |-> p],
         [version |-> "1.2.3", pub_date |-> d, platforms |-> p]} :
        d \in PubDates,
        p \in {{[key |-> k, url |-> "https://d.pl/a.zip", signature |-> "sig"] : k \in K} :
                  K \in {T \in SUBSET PlatformKeys : Cardinality(T) <= MaxPlatforms}}}

\* ------------------------------------------------------------------ state

VARIABLES
    branch,             \* environment: the current git branch
    target,             \* environment: args.target, or the rustup default target
    git_stdout,         \* environment: stdout of `git rev-parse HEAD`
    local_files,        \* file system: the regular files under the release directory
    disk_conf,          \* file system: the content of tauri.conf.json
    store,              \* the object store: a set of [key, file, release]
    budget,             \* invocations of the program still to come
    runs,               \* invocations so far
    pc,                 \* position in main
    cmd,                \* args.command: [name, cleanup]
    git_hash,           \* main::git_hash
    tauri_conf_json,    \* main::tauri_conf_json
    release_platforms,  \* main::release_platforms
    files,              \* main::files
    with_keys,          \* main::with_keys, the key of each file
    tasks,              \* main::tasks: "pending" or "ok" for each upload future
    urls,               \* main::urls
    binary_url,         \* main::binary_url
    signature,          \* main::signature
    release,            \* main::release
    release_file_url,   \* main::release_file_url
    err,                \* the error main returned
    written,            \* the store keys this run has put
    removed,            \* the local files this run has deleted
    conf_written,       \* this run has written tauri.conf.json back
    rt,                 \* the release notes test: its document, value and position
    prev                \* the previous run: its inputs, keys and outcome

env_vars == <<branch, target, git_stdout>>
sys_vars == <<local_files, disk_conf, store>>
run_vars == <<cmd, git_hash, tauri_conf_json, release_platforms, files, with_keys, tasks,
              urls, binary_url, signature, release, release_file_url, written, removed>>
main_vars == <<env_vars, sys_vars, budget, runs, pc, err, run_vars, conf_written, prev>>
vars == <<main_vars, rt>>

\* No document is being parsed or written.
NoRoundTrip == [at |-> "none"]

NoErr == [msg |-> "", url |-> "", endpoints |-> <<>>]
Error(msg) == [msg |-> msg, url |-> "", endpoints |-> <<>>]

NoRelease == [version |-> "", notes |-> "", pub_date |-> "", platforms |-> {}]

NoPrev == [cmd |-> [name |-> "", cleanup |-> FALSE], files |-> <<>>, git_hash |-> "",
           with_keys |-> <<>>, written |-> {}, pc |-> ""]

\* The store after a put of `key`: the object under `key` is replaced.
put_object(s, key, file, rel) ==
    {o \in s : o.key # key} \cup {[key |-> key, file |-> file, release |-> rel]}

\* What handle_s3::upload_to_s3 returns on success.
upload_to_s3_url(config, s3_path) == s3_url(config, s3_path)

\* main::git_hash(), or the uuid main falls back to
git_hash_of(stdout) == [ok |-> trim(stdout) # "", val |-> take(trim(stdout), 8)]

uuid_new_v4(n) == "uuid-" \o ToString(n)

git_hash_or_uuid(stdout, n) ==
    IF git_hash_of(stdout).ok THEN git_hash_of(stdout).val ELSE uuid_new_v4(n)

TypeOK ==
    /\ branch \in Branches
    /\ target \in RustTarget
    /\ pc \in {"idle", "patch", "walk", "upload", "cleanup", "classify", "signature",
               "build", "upload_release", "validate", "save", "done", "failed"}
    /\ budget \in 0..(MaxRuns + 1)

\* The state before the first of n invocations, in an environment whose target
\* is one of `targets`.
InitEnv(targets, n) ==
    /\ branch \in Branches
    /\ target \in targets
    /\ git_stdout \in GitOutputs
    /\ local_files \in FileLists
    /\ disk_conf \in {ConfJson(e, "pl.app") : e \in EndpointLists(branch, target)}
    /\ store = {}
    /\ budget = n
    /\ runs = 0
    /\ pc = "idle"
    /\ cmd = [name |-> "", cleanup |-> FALSE]
    /\ git_hash = ""
    /\ tauri_conf_json = disk_conf
    /\ release_platforms = <<>>
    /\ files = <<>>
    /\ with_keys = <<>>
    /\ tasks = <<>>
    /\ urls = <<>>
    /\ binary_url = ""
    /\ signature = ""
    /\ release = NoRelease
    /\ release_file_url = ""
    /\ err = NoErr
    /\ written = {}
    /\ removed = {}
    /\ conf_written = FALSE
    /\ prev = NoPrev

Init == InitEnv(RustTarget, 1) /\ rt = NoRoundTrip

InitRuns == InitEnv({"Win64"}, MaxRuns) /\ rt = NoRoundTrip

\* ------------------------------------------------------- helpers of main

\* keys_of with the number of the run stamped into each key.
keys_of_stamped(conf, t, b, fs, hash) ==
    [i \in DOMAIN fs |->
        derive_binary_file_s3_key(conf, t, b, fs[i], hash \o "-" \o ToString(runs))]

\* with_keys: the key derive_binary_file_s3_key gives each file, in the files' order
keys_of(conf, t, b, fs, hash) ==
    [i \in DOMAIN fs |-> derive_binary_file_s3_key(conf, t, b, fs[i], hash)]

\* find_ends_with taking the last match instead of the first.
find_ends_with_last(us, suffix) ==
    IF \E i \in DOMAIN us : ends_with(us[i], suffix)
    THEN CHOOSE i \in DOMAIN us :
             /\ ends_with(us[i], suffix)
             /\ \A j \in (i + 1)..Len(us) : ~ends_with(us[j], suffix)
    ELSE 0

\* urls.iter().find(|url| url.ends_with(suffix)): the index of the first match, 0 if none
find_ends_with(us, suffix) ==
    IF \E i \in DOMAIN us : ends_with(us[i], suffix)
    THEN CHOOSE i \in DOMAIN us :
             /\ ends_with(us[i], suffix)
             /\ \A j \in 1..(i - 1) : ~ends_with(us[j], suffix)
    ELSE 0

\* collect_platforms keeping the first platform only.
collect_platforms_first(rps, url, sig) ==
    {[platform |-> rps[i], url |-> url, signature |-> sig] : i \in DOMAIN rps \cap {1}}

\* release_platforms.into_iter().map(..).collect::<HashMap<_, _>>(): one entry
\* for each key, the last one given for it
collect_platforms(rps, url, sig) ==
    {[platform |-> rps[i], url |-> url, signature |-> sig] : i \in DOMAIN rps}

\* The ReleaseNotes main builds.
build_release(b, conf, rps, url, sig) ==
    [version   |-> conf.package.version,
     notes     |-> "new " \o b \o " release: " \o conf.package.version,
     pub_date  |-> "now_utc",
     platforms |-> collect_platforms(rps, url, sig)]

\* The identifier Patch writes: the old one, '.', and the branch with '/', ' '
\* and ':' replaced by '_'.
new_identifier(conf, b) ==
    conf.tauri.bundle.identifier \o "." \o replace(replace(replace(b, "/", "_"), " ", "_"), ":", "_")

\* with_update_endpoint pushing the endpoint after the ones already there.
with_update_endpoint_push(conf, endpoint) ==
    [conf EXCEPT !.tauri.updater.endpoints = Append(@, endpoint)]

\* TauriConfJson::with_update_endpoint
with_update_endpoint(conf, endpoint) ==
    [conf EXCEPT !.tauri.updater.endpoints = <<endpoint>>]

\* TauriConfJson::with_update_identifier
with_update_identifier(conf, identifier) ==
    [conf EXCEPT !.tauri.bundle.identifier = identifier]

\* endpoint_registered looking at the first endpoint only.
endpoint_registered_first(conf, url) ==
    /\ conf.tauri.updater.endpoints # <<>>
    /\ conf.tauri.updater.endpoints[1] = url

\* The validation at the end of Upload.
endpoint_registered(conf, url) ==
    \E i \in DOMAIN conf.tauri.updater.endpoints : conf.tauri.updater.endpoints[i] = url

Fail(e) == pc' = "failed" /\ err' = e

\* ---------------------------------------------------------------- actions

\* main, lines 689-725: the program starts, reads its inputs and dispatches
\* on the command.
Main(name, cleanup, env_ok) ==
    /\ pc \in {"idle", "done", "failed"}
    /\ budget > 0
    /\ budget' = budget - 1
    /\ runs' = runs + 1
    /\ prev' = IF pc = "idle" THEN prev
               ELSE [cmd |-> cmd, files |-> files, git_hash |-> git_hash,
                     with_keys |-> with_keys, written |-> written, pc |-> pc]
    /\ cmd' = [name |-> name, cleanup |-> cleanup]
    /\ git_hash' = git_hash_or_uuid(git_stdout, runs + 1)
    /\ tauri_conf_json' = disk_conf
    /\ release_platforms' =
           IF to_release_platform(target).ok THEN to_release_platform(target).val ELSE <<>>
    /\ files' = <<>>
    /\ with_keys' = <<>>
    /\ tasks' = <<>>
    /\ urls' = <<>>
    /\ binary_url' = ""
    /\ signature' = ""
    /\ release' = NoRelease
    /\ release_file_url' = ""
    /\ written' = {}
    /\ removed' = {}
    /\ IF ~to_release_platform(target).ok
       THEN Fail(Error("getting release platform from target"))
       ELSE IF ~env_ok
       THEN Fail(Error("getting s3 config from env"))
       ELSE /\ pc' = IF name = "Patch" THEN "patch" ELSE "walk"
            /\ err' = NoErr
    /\ conf_written' = FALSE
    /\ UNCHANGED <<rt, env_vars, sys_vars>>

\* Patch registering the url of the sanitized branch.
Patch_sanitized ==
    /\ pc = "patch"
    /\ tauri_conf_json' =
           with_update_identifier(
               with_update_endpoint(tauri_conf_json,
                                    derive_release_file_s3_url(
                                        replace(replace(replace(branch, "/", "_"), " ", "_"), ":", "_"),
                                        target, s3_config)),
               new_identifier(tauri_conf_json, branch))
    /\ pc' = "save"
    /\ UNCHANGED <<rt, conf_written, env_vars, sys_vars, budget, runs, err, cmd, git_hash, release_platforms,
                   files, with_keys, tasks, urls, binary_url, signature, release,
                   release_file_url, written, removed, prev>>

\* Command::Patch, lines 726-740
Patch ==
    /\ pc = "patch"
    /\ tauri_conf_json' =
           with_update_identifier(
               with_update_endpoint(tauri_conf_json,
                                    derive_release_file_s3_url(branch, target, s3_config)),
               new_identifier(tauri_conf_json, branch))
    /\ pc' = "save"
    /\ UNCHANGED <<rt, conf_written, env_vars, sys_vars, budget, runs, err, cmd, git_hash, release_platforms,
                   files, with_keys, tasks, urls, binary_url, signature, release,
                   release_file_url, written, removed, prev>>

\* Command::Upload, lines 745-783: the release directory is walked, each file
\* gets its key and one upload future is made for each.
Walk(dir_ok) ==
    /\ pc = "walk"
    /\ IF dir_ok
       THEN /\ files' = local_files
            /\ with_keys' = keys_of(tauri_conf_json, target, branch, local_files, git_hash)
            /\ tasks' = [i \in DOMAIN local_files |-> "pending"]
            /\ pc' = "upload"
            /\ err' = err
       ELSE /\ Fail(Error("reading release dir entries"))
            /\ UNCHANGED <<files, with_keys, tasks>>
    /\ UNCHANGED <<rt, conf_written, env_vars, sys_vars, budget, runs, cmd, git_hash, tauri_conf_json,
                   release_platforms, urls, binary_url, signature, release,
                   release_file_url, written, removed, prev>>

\* One future of try_join_all, lines 774-784: upload_to_s3 puts the file under
\* its key and succeeds.
UploadOk(i) ==
    /\ pc = "upload"
    /\ i \in DOMAIN tasks
    /\ tasks[i] = "pending"
    /\ tasks' = [tasks EXCEPT ![i] = "ok"]
    /\ store' = put_object(store, s3_path_with_subdirectory(s3_config, with_keys[i]),
                           files[i], NoRelease)
    /\ written' = written \cup {s3_path_with_subdirectory(s3_config, with_keys[i])}
    /\ UNCHANGED <<rt, conf_written, env_vars, local_files, disk_conf, budget, runs, pc, err, cmd, git_hash,
                   tauri_conf_json, release_platforms, files, with_keys, urls, binary_url,
                   signature, release, release_file_url, removed, prev>>

\* One future of try_join_all fails: try_join_all returns the error at once,
\* the futures still pending are dropped, and main returns (lines 784-787).
UploadErr(i) ==
    /\ pc = "upload"
    /\ i \in DOMAIN tasks
    /\ tasks[i] = "pending"
    /\ Fail(Error("uploading all binary files"))
    /\ UNCHANGED <<rt, conf_written, env_vars, sys_vars, budget, runs, run_vars, prev>>

\* AllUploaded going on as soon as one future has succeeded.
AllUploaded_any ==
    /\ pc = "upload"
    /\ \E i \in DOMAIN tasks : tasks[i] = "ok"
    /\ urls' = [i \in DOMAIN with_keys |->
                    upload_to_s3_url(s3_config, s3_path_with_subdirectory(s3_config, with_keys[i]))]
    /\ pc' = IF cmd.cleanup THEN "cleanup" ELSE "classify"
    /\ UNCHANGED <<rt, conf_written, env_vars, sys_vars, budget, runs, err, cmd, git_hash, tauri_conf_json,
                   release_platforms, files, with_keys, tasks, binary_url, signature,
                   release, release_file_url, written, removed, prev>>

\* AllUploaded going straight to the lookup of the zip file, cleanup or not.
AllUploaded_no_cleanup ==
    /\ pc = "upload"
    /\ \A i \in DOMAIN tasks : tasks[i] = "ok"
    /\ urls' = [i \in DOMAIN with_keys |->
                    upload_to_s3_url(s3_config, s3_path_with_subdirectory(s3_config, with_keys[i]))]
    /\ pc' = "classify"
    /\ UNCHANGED <<rt, conf_written, env_vars, sys_vars, budget, runs, err, cmd, git_hash, tauri_conf_json,
                   release_platforms, files, with_keys, tasks, binary_url, signature,
                   release, release_file_url, written, removed, prev>>

\* AllUploaded going to the cleanup whether it was asked for or not.
AllUploaded_always_cleanup ==
    /\ pc = "upload"
    /\ \A i \in DOMAIN tasks : tasks[i] = "ok"
    /\ urls' = [i \in DOMAIN with_keys |->
                    upload_to_s3_url(s3_config, s3_path_with_subdirectory(s3_config, with_keys[i]))]
    /\ pc' = "cleanup"
    /\ UNCHANGED <<rt, conf_written, env_vars, sys_vars, budget, runs, err, cmd, git_hash, tauri_conf_json,
                   release_platforms, files, with_keys, tasks, binary_url, signature,
                   release, release_file_url, written, removed, prev>>

\* try_join_all resolves, lines 784-788: every future has succeeded; urls holds
\* their results in the order of the futures.
AllUploaded ==
    /\ pc = "upload"
    /\ \A i \in DOMAIN tasks : tasks[i] = "ok"
    /\ urls' = [i \in DOMAIN with_keys |->
                    upload_to_s3_url(s3_config, s3_path_with_subdirectory(s3_config, with_keys[i]))]
    /\ pc' = IF cmd.cleanup THEN "cleanup" ELSE "classify"
    /\ UNCHANGED <<rt, conf_written, env_vars, sys_vars, budget, runs, err, cmd, git_hash, tauri_conf_json,
                   release_platforms, files, with_keys, tasks, binary_url, signature,
                   release, release_file_url, written, removed, prev>>

\* if cleanup, lines 789-799: the files are removed in order; the first removal
\* that fails (the k-th) ends the run. k = 0: every removal succeeds.
Cleanup(k) ==
    /\ pc = "cleanup"
    /\ k \in 0..Len(files)
    /\ LET gone == IF k = 0 THEN Range(files) ELSE {files[i] : i \in 1..(k - 1)}
       IN  /\ local_files' = SelectSeq(local_files, LAMBDA f : f \notin gone)
           /\ removed' = removed \cup gone
    /\ IF k = 0
       THEN pc' = "classify" /\ err' = err
       ELSE Fail(Error("cleaning up cache"))
    /\ UNCHANGED <<rt, conf_written, env_vars, disk_conf, store, budget, runs, cmd, git_hash, tauri_conf_json,
                   release_platforms, files, with_keys, tasks, urls, binary_url, signature,
                   release, release_file_url, written, prev>>

\* lines 801-804: the first url ending in ".zip"
Classify ==
    /\ pc = "classify"
    /\ IF find_ends_with(urls, ".zip") # 0
       THEN /\ binary_url' = urls[find_ends_with(urls, ".zip")]
            /\ pc' = "signature"
            /\ err' = err
       ELSE /\ Fail(Error("getting zip file"))
            /\ UNCHANGED binary_url
    /\ UNCHANGED <<rt, conf_written, env_vars, sys_vars, budget, runs, cmd, git_hash, tauri_conf_json,
                   release_platforms, files, with_keys, tasks, urls, signature, release,
                   release_file_url, written, removed, prev>>

\* Signature with a missing signature file ending the run.
Signature_fatal(get_ok) ==
    /\ pc = "signature"
    /\ IF find_ends_with(urls, ".zip.sig") # 0 /\ get_ok
       THEN /\ signature' = "content of " \o urls[find_ends_with(urls, ".zip.sig")]
            /\ pc' = "build"
            /\ err' = err
       ELSE /\ Fail(Error("getting sig file"))
            /\ UNCHANGED signature
    /\ UNCHANGED <<rt, conf_written, env_vars, sys_vars, budget, runs, cmd, git_hash, tauri_conf_json,
                   release_platforms, files, with_keys, tasks, urls, binary_url, release,
                   release_file_url, written, removed, prev>>

\* lines 805-822: the content behind the first url ending in ".zip.sig" is
\* fetched (get_ok: the request succeeds); without such a url the signature is "".
Signature(get_ok) ==
    /\ pc = "signature"
    /\ IF find_ends_with(urls, ".zip.sig") = 0
       THEN /\ signature' = ""
            /\ pc' = "build"
            /\ err' = err
       ELSE IF get_ok
       THEN /\ signature' = "content of " \o urls[find_ends_with(urls, ".zip.sig")]
            /\ pc' = "build"
            /\ err' = err
       ELSE /\ Fail(Error("downloading signature content"))
            /\ UNCHANGED signature
    /\ UNCHANGED <<rt, conf_written, env_vars, sys_vars, budget, runs, cmd, git_hash, tauri_conf_json,
                   release_platforms, files, with_keys, tasks, urls, binary_url, release,
                   release_file_url, written, removed, prev>>

\* lines 824-861: the release notes are built and written to TEMP_RELEASE_FILE.json
\* (write_ok: the write succeeds).
BuildRelease(write_ok) ==
    /\ pc = "build"
    /\ release' = build_release(branch, tauri_conf_json, release_platforms, binary_url, signature)
    /\ IF write_ok
       THEN pc' = "upload_release" /\ err' = err
       ELSE Fail(Error("dumping release file to a file"))
    /\ UNCHANGED <<rt, conf_written, env_vars, sys_vars, budget, runs, cmd, git_hash, tauri_conf_json,
                   release_platforms, files, with_keys, tasks, urls, binary_url, signature,
                   release_file_url, written, removed, prev>>

\* lines 862-871: the release file is put under the release key (put_ok: the
\* put succeeds).
UploadRelease(put_ok) ==
    /\ pc = "upload_release"
    /\ LET release_key == derive_release_file_s3_key(branch, target)
           s3_path == s3_path_with_subdirectory(s3_config, release_key)
       IN  IF put_ok
           THEN /\ store' = put_object(store, s3_path, "TEMP_RELEASE_FILE.json", release)
                /\ written' = written \cup {s3_path}
                /\ release_file_url' = upload_to_s3_url(s3_config, s3_path)
                /\ pc' = "validate"
                /\ err' = err
           ELSE /\ Fail(Error("uploading release file to s3"))
                /\ UNCHANGED <<store, written, release_file_url>>
    /\ UNCHANGED <<rt, conf_written, env_vars, local_files, disk_conf, budget, runs, cmd, git_hash,
                   tauri_conf_json, release_platforms, files, with_keys, tasks, urls,
                   binary_url, signature, release, removed, prev>>

\* lines 873-886: the release file url must be one of the endpoints
\* The check of lines 873-883 letting an unregistered url through.
Validate_lenient ==
    /\ pc = "validate"
    /\ pc' = "save"
    /\ err' = err
    /\ UNCHANGED <<rt, conf_written, env_vars, sys_vars, budget, runs, run_vars, prev>>

Validate ==
    /\ pc = "validate"
    /\ IF endpoint_registered(tauri_conf_json, release_file_url)
       THEN pc' = "save" /\ err' = err
       ELSE Fail([msg |-> "configuration error", url |-> release_file_url,
                  endpoints |-> tauri_conf_json.tauri.updater.endpoints])
    /\ UNCHANGED <<rt, conf_written, env_vars, sys_vars, budget, runs, run_vars, prev>>

\* lines 889-896: tauri.conf.json is written back (write_ok: the write succeeds)
Save(write_ok) ==
    /\ pc = "save"
    /\ IF write_ok
       THEN /\ disk_conf' = tauri_conf_json
            /\ conf_written' = TRUE
            /\ pc' = "done"
            /\ err' = err
       ELSE /\ Fail(Error("saving tauri.conf.json"))
            /\ UNCHANGED <<disk_conf, conf_written>>
    /\ UNCHANGED <<rt, env_vars, local_files, store, budget, runs, run_vars, prev>>

Next ==
    \/ \E name \in {"Patch", "Upload"}, cleanup, env_ok \in BOOLEAN :
           (name = "Patch" => ~cleanup) /\ Main(name, cleanup, env_ok)
    \/ Patch
    \/ \E dir_ok \in BOOLEAN : Walk(dir_ok)
    \/ \E i \in 1..(MaxFiles + 1) : UploadOk(i)
    \/ \E i \in 1..(MaxFiles + 1) : UploadErr(i)
    \/ AllUploaded
    \/ \E k \in 0..(MaxFiles + 1) : Cleanup(k)
    \/ Classify
    \/ \E get_ok \in BOOLEAN : Signature(get_ok)
    \/ \E write_ok \in BOOLEAN : BuildRelease(write_ok)
    \/ \E put_ok \in BOOLEAN : UploadRelease(put_ok)
    \/ Validate
    \/ \E write_ok \in BOOLEAN : Save(write_ok)

\* One invocation of the program, in every environment.
Spec == Init /\ [][Next]_vars

\* Up to MaxRuns invocations, one after the other, on the same store, files and
\* tauri.conf.json.
SpecRuns == InitRuns /\ [][Next]_vars

\* ------------------------------------------------- release notes round trip

\* serde_json::to_string_pretty of the value built (test_generated_release_works)
\* or of the value parsed from a document (check_current_release_file_works).
Serialize ==
    /\ rt.at \in {"value", "parsed"}
    /\ rt' = IF rt.at = "value"
             THEN [at |-> "serialized", value |-> rt.value, doc |-> serialize(rt.value)]
             ELSE [at |-> "reserialized", doc |-> rt.doc, value |-> rt.value,
                   out |-> serialize(rt.value)]
    /\ UNCHANGED main_vars

\* serde_json::from_str of the document just written
\* (test_generated_release_works) or of an existing document
\* (check_current_release_file_works); a document that does not parse ends the
\* test with its error.
Deserialize ==
    /\ rt.at \in {"serialized", "document"}
    /\ LET r == deserialize(rt.doc)
       IN  rt' = IF rt.at = "serialized"
                 THEN [at |-> IF r.ok THEN "reparsed" ELSE "deserializing",
                       value |-> rt.value, doc |-> rt.doc, out |-> r.val]
                 ELSE [at |-> IF r.ok THEN "parsed" ELSE "could not parse the original",
                       doc |-> rt.doc, value |-> r.val]
    /\ UNCHANGED main_vars

\* A ReleaseNotes value about to be serialized, or a document about to be
\* parsed; the program itself is not run.
InitRoundTrip ==
    /\ InitEnv({"Win64"}, 0)
    /\ branch = "m"
    /\ git_stdout = ""
    /\ local_files = <<>>
    /\ disk_conf.tauri.updater.endpoints = <<>>
    /\ rt \in {[at |-> "value", value |-> v] : v \in ReleaseNotesValues}
                  \cup {[at |-> "document", doc |-> d] : d \in Documents}

NextRoundTrip == Serialize \/ Deserialize

\* The round trips of release_notes_file, on every value and document.
SpecRoundTrip == InitRoundTrip /\ [][NextRoundTrip]_vars

\* ------------------------------------------------------------------ claims

\* The path under which this run puts the release file.
ManifestS3Path ==
    s3_path_with_subdirectory(s3_config, derive_release_file_s3_key(branch, target))

\* The path under which this run puts its i-th file.
BinaryS3Path(i) == s3_path_with_subdirectory(s3_config, with_keys[i])

HasChar(s, cs) == \E i \in 1..Len(s) : CharAt(s, i) \in cs

BadChars == {"/", " ", ":"}

ZipUrls == {i \in DOMAIN urls : ends_with(urls[i], ".zip")}
SigUrls == {i \in DOMAIN urls : ends_with(urls[i], ".zip.sig")}

\* C1: the release file is put only when every upload future of the run has
\* succeeded and its file is in the store; a run in which an upload failed has
\* ended in that error, has built no release and has not put the release file.
C1_ManifestOnlyAfterAllUploads ==
    /\ ManifestS3Path \in written =>
           /\ Len(tasks) = Len(files)
           /\ \A i \in DOMAIN files :
                  /\ tasks[i] = "ok"
                  /\ BinaryS3Path(i) \in written
                  /\ \E o \in store : o.key = BinaryS3Path(i)
           /\ err.msg # "uploading all binary files"
    /\ err.msg = "uploading all binary files" =>
           /\ pc = "failed"
           /\ \E i \in DOMAIN tasks : tasks[i] = "pending"
           /\ release = NoRelease
           /\ ManifestS3Path \notin written
           /\ ~\E o \in store : o.key = ManifestS3Path

\* C1 witness: one of two uploads has succeeded, the other has failed.
C1_Witness ==
    /\ pc = "failed"
    /\ err.msg = "uploading all binary files"
    /\ Len(files) = 2
    /\ \E i \in DOMAIN tasks : tasks[i] = "ok"

\* C2: once Upload has validated, the run has gone on (to the write of
\* tauri.conf.json) exactly if the url of the release file is one of
\* updater.endpoints; if not, it has failed with the error that carries the url
\* and the endpoints, and is not done.
C2_ValidateIffRegistered ==
    (cmd.name = "Upload" /\ release_file_url # "" /\ pc # "validate") =>
        IF release_file_url \in Range(tauri_conf_json.tauri.updater.endpoints)
        THEN \/ pc \in {"save", "done"}
             \/ pc = "failed" /\ err.msg = "saving tauri.conf.json"
        ELSE /\ pc = "failed"
             /\ err = [msg |-> "configuration error", url |-> release_file_url,
                       endpoints |-> tauri_conf_json.tauri.updater.endpoints]

\* C2 witness: validation has succeeded on a list of one unrelated endpoint and
\* the right one.
C2_Witness ==
    /\ cmd.name = "Upload"
    /\ pc = "done"
    /\ tauri_conf_json.tauri.updater.endpoints = <<OtherEndpoint, release_file_url>>

C4_ManifestKeyAndUrl ==
    LET key == branch \o "/" \o to_variant_name(target) \o "/release-notes.json"
        prefix == s3_config.actual_domain \o "/" \o s3_config.bucket_subdirectory
        test_config == [bucket_subdirectory |-> "test-bucket-subdirectory",
                        actual_domain |-> "https://test-bucket-name.blazingsoft.pl"]
    IN  /\ derive_release_file_s3_key(branch, target) = key
        /\ derive_release_file_s3_key(branch, target)
               = derive_release_base_key(branch, target) \o "/release-notes.json"
        /\ derive_release_file_s3_url(branch, target, s3_config) = prefix \o "/" \o key
        /\ derive_release_file_s3_key("release", "Linux64")
               = "release/x86_64-unknown-linux-gnu/release-notes.json"
        /\ derive_release_file_s3_url("release", "Win64", test_config)
               = "https://test-bucket-name.blazingsoft.pl/test-bucket-subdirectory/release/x86_64-pc-windows-msvc/release-notes.json"
        /\ release_file_url # "" =>
               \E o \in store :
                   o.key = s3_config.bucket_subdirectory \o "/" \o key /\ o.release = release
        /\ (cmd.name = "Patch" /\ pc \in {"save", "done"}) =>
               tauri_conf_json.tauri.updater.endpoints = <<prefix \o "/" \o key>>

\* C4 witness: the release file of branch "m" and target Linux64 has been put.
C4_Witness ==
    /\ pc = "validate"
    /\ branch = "m"
    /\ target = "Linux64"
    /\ release_file_url # ""

\* C5: to_release_platform gives every target one V1 and one V2 platform, no two
\* targets share a platform, and every run holds that list for its target.
C5_OnePlatformPerGeneration ==
    /\ \A t \in RustTarget :
           LET r == to_release_platform(t)
           IN  /\ r.ok
               /\ Len(r.val) = 2
               /\ Cardinality({i \in DOMAIN r.val : r.val[i].gen = "V1"}) = 1
               /\ Cardinality({i \in DOMAIN r.val : r.val[i].gen = "V2"}) = 1
               /\ Range(r.val) \subseteq ReleasePlatform
    /\ \A t1, t2 \in RustTarget :
           t1 # t2 => Range(to_release_platform(t1).val) \cap Range(to_release_platform(t2).val) = {}
    /\ pc \notin {"idle", "failed"} =>
           /\ Len(release_platforms) = 2
           /\ {rp.gen : rp \in Range(release_platforms)} = {"V1", "V2"}
           /\ \A rp \in Range(release_platforms) :
                  rp.p = (CASE target = "Win32" -> "Win32"
                            [] target = "Win64" -> "Win64"
                            [] target = "Linux64" -> "Linux")

\* C5 witness: a run for Win32 is about to build its release.
C5_Witness ==
    /\ pc = "build"
    /\ target = "Win32"
    /\ release_platforms = <<V1("Win32"), V2("Win32")>>

\* C6 as stated: a run for Linux64 ends when the platforms are asked for, with
\* the error of to_release_platform; a run for Win32 or Win64 never does.
C6_Original ==
    /\ (target = "Linux64" /\ pc # "idle") =>
           /\ pc = "failed"
           /\ err.msg = "getting release platform from target"
    /\ target # "Linux64" => err.msg # "getting release platform from target"

\* C6 as amended: to_release_platform fails for no target; for Linux64 it gives
\* the platforms "linux" and "linux-x86_64", and the release of a Linux64 run is
\* built and put with these two keys. Only to_installer_str, which main never
\* calls, is unimplemented for the Linux platforms.
C6_PlatformsNeverFail ==
    /\ \A t \in RustTarget : to_release_platform(t).ok
    /\ {platform_name(rp) : rp \in Range(to_release_platform("Linux64").val)}
           = {"linux", "linux-x86_64"}
    /\ err.msg # "getting release platform from target"
    /\ \A rp \in ReleasePlatform : (to_installer_str(rp) = "unimplemented!") <=> (rp.p = "Linux")
    /\ (target = "Linux64" /\ ManifestS3Path \in written) =>
           \E o \in store :
               /\ o.key = ManifestS3Path
               /\ {platform_name(e.platform) : e \in o.release.platforms}
                      = {"linux", "linux-x86_64"}

\* C6 witness: a run for Linux64 has put its release file.
C6_Witness ==
    /\ target = "Linux64"
    /\ pc = "validate"
    /\ ManifestS3Path \in written

\* C7: an Upload run that follows an Upload run with the same files and the same
\* commit identifier (branch, target and version are those of the first) derives
\* the same key for every file, and once both have put their release file, both
\* have put the same set of keys.
C7_SameInputsSameKeys ==
    (/\ prev.cmd.name = "Upload"
     /\ cmd.name = "Upload"
     /\ prev.files = files
     /\ prev.git_hash = git_hash) =>
        /\ with_keys = prev.with_keys
        /\ (ManifestS3Path \in written /\ ManifestS3Path \in prev.written) =>
               written = prev.written

\* C7 witness: two Upload runs of the same two files and commit are done.
C7_Witness ==
    /\ prev.cmd.name = "Upload" /\ prev.pc = "done"
    /\ cmd.name = "Upload" /\ pc = "done"
    /\ Len(files) = 2
    /\ prev.files = files
    /\ prev.git_hash = git_hash
    /\ Cardinality(written) = 3

\* C8: the platforms of every release built are those of the target, one V1 and
\* one V2 and none of another target, and every entry holds the chosen url and
\* the signature; the release put in the store is that release.
C8_ManifestPlatforms ==
    /\ release # NoRelease =>
           /\ {e.platform : e \in release.platforms} = Range(to_release_platform(target).val)
           /\ Cardinality(release.platforms) = 2
           /\ {e.platform.gen : e \in release.platforms} = {"V1", "V2"}
           /\ \A e \in release.platforms :
                  /\ e.platform.p = (CASE target = "Win32" -> "Win32"
                                       [] target = "Win64" -> "Win64"
                                       [] target = "Linux64" -> "Linux")
                  /\ e.url = binary_url
                  /\ e.signature = signature
           /\ binary_url # ""
    /\ \A o \in store : (o.key = ManifestS3Path /\ ManifestS3Path \in written) => o.release = release

\* C8 witness: the release of a Win64 run, with a signature, has been put.
C8_Witness ==
    /\ pc = "validate"
    /\ target = "Win64"
    /\ signature # ""
    /\ \E o \in store : o.key = ManifestS3Path /\ o.release = release

\* C9: with a url ending in ".zip" and none ending in ".zip.sig", the run does
\* not end at the signature: it goes on to build with the signature "", every
\* entry of the release holds "", and the errors it can still end in are those
\* of the other steps.
C9_MissingSignatureNotFatal ==
    (ZipUrls # {} /\ SigUrls = {}) =>
        /\ signature = ""
        /\ \A e \in release.platforms : e.signature = ""
        /\ pc = "failed" =>
               err.msg \in {"cleaning up cache", "dumping release file to a file",
                            "uploading release file to s3", "configuration error",
                            "saving tauri.conf.json"}
        /\ pc \in {"build", "upload_release", "validate", "save", "done"} => binary_url # ""

\* C9 witness: without a signature file the release file has been put and the
\* run validates.
C9_Witness ==
    /\ ZipUrls # {} /\ SigUrls = {}
    /\ pc = "validate"
    /\ release # NoRelease
    /\ \A e \in release.platforms : e.signature = ""

\* C10 as stated: a run whose uploads have all succeeded, none with a url ending
\* in ".zip", fails with the error of the missing zip file.
C10_Original ==
    (urls # <<>> /\ ZipUrls = {} /\ pc \notin {"cleanup", "classify"}) =>
        /\ pc = "failed"
        /\ err.msg = "getting zip file"

\* C10 as amended: a run whose uploads have all succeeded, none with a url
\* ending in ".zip", fails, builds no release and does not put the release file;
\* its error is that of the missing zip file unless cleanup was asked for and a
\* removal failed first. With a url ending in ".zip", the url of the release is
\* the first such url in the order of the uploaded files.
C10_PrimaryArtifact ==
    /\ (urls # <<>> /\ ZipUrls = {} /\ pc \notin {"cleanup", "classify"}) =>
           /\ pc = "failed"
           /\ err.msg \in {"getting zip file", "cleaning up cache"}
           /\ err.msg = "cleaning up cache" => cmd.cleanup
           /\ release = NoRelease
           /\ ManifestS3Path \notin written
    /\ err.msg = "getting zip file" =>
           /\ ZipUrls = {}
           /\ \A i \in DOMAIN tasks : tasks[i] = "ok"
           /\ release = NoRelease
           /\ ManifestS3Path \notin written
    /\ (cmd.name = "Upload" /\ pc \in {"signature", "build", "upload_release", "validate",
                                        "save", "done"}) =>
           /\ ZipUrls # {}
           /\ \E i \in ZipUrls :
                  /\ binary_url = urls[i]
                  /\ \A j \in ZipUrls : i <= j
    /\ release # NoRelease =>
           \E i \in ZipUrls : \A e \in release.platforms : e.url = urls[i] /\ \A j \in ZipUrls : i <= j

\* C10 witness: every upload has succeeded, no url ends in ".zip", and the run
\* has failed for the missing zip file.
C10_Witness ==
    /\ pc = "failed"
    /\ err.msg = "getting zip file"
    /\ urls # <<>>
    /\ \A i \in DOMAIN tasks : tasks[i] = "ok"


\* The errors an Upload run can end in after its cleanup.
ErrorsAfterCleanup ==
    {"getting zip file", "downloading signature content", "dumping release file to a file",
     "uploading release file to s3", "configuration error", "saving tauri.conf.json"}

\* C11 as stated: a run with cleanup that fails for the missing zip file has
\* deleted no local file.
C11_Original ==
    (cmd.cleanup /\ pc = "failed" /\ err.msg = "getting zip file") =>
        /\ removed = {}
        /\ Range(files) \subseteq Range(local_files)

\* C11 as amended: the cleanup comes before the lookup of the zip file: a run
\* with cleanup that looks for the zip file, and one that fails for the missing
\* zip file, has already deleted every file it enumerated, and the uploads of
\* these files are in the store.
C11_CleanupBeforeClassify ==
    (cmd.cleanup /\ (pc \in {"classify", "signature"} \/ err.msg = "getting zip file")) =>
        /\ removed = Range(files)
        /\ Range(files) \cap Range(local_files) = {}
        /\ \A i \in DOMAIN files : \E o \in store : o.key = BinaryS3Path(i)

\* C11 witness: a run with cleanup has deleted its files and then failed for
\* the missing zip file.
C11_Witness ==
    /\ cmd.cleanup
    /\ pc = "failed"
    /\ err.msg = "getting zip file"
    /\ files # <<>>
    /\ removed = Range(files)

\* C12: files are deleted only by a run with cleanup whose uploads have all
\* succeeded; a run without cleanup or with a failed upload deletes none; a run
\* with cleanup that has got past the cleanup has deleted every file it
\* enumerated; a failed removal ends the run, with the uploaded files in the
\* store and no release built.
C12_CleanupOnlyAfterUploads ==
    /\ removed # {} =>
           /\ cmd.name = "Upload" /\ cmd.cleanup
           /\ removed \subseteq Range(files)
           /\ Len(tasks) = Len(files)
           /\ \A i \in DOMAIN files : tasks[i] = "ok"
    /\ Range(local_files) \cap removed = {}
    /\ (~cmd.cleanup \/ err.msg = "uploading all binary files") =>
           /\ removed = {}
           /\ Range(files) \subseteq Range(local_files)
    /\ (/\ cmd.cleanup
        /\ \/ pc \in {"classify", "signature", "build", "upload_release", "validate", "save",
                      "done"}
           \/ pc = "failed" /\ err.msg \in ErrorsAfterCleanup) =>
           /\ removed = Range(files)
           /\ Range(files) \cap Range(local_files) = {}
    /\ err.msg = "cleaning up cache" =>
           /\ pc = "failed"
           /\ cmd.cleanup
           /\ removed # Range(files)
           /\ \A i \in DOMAIN files :
                  \E o \in store : o.key = BinaryS3Path(i) /\ o.file = files[i]
           /\ release = NoRelease
           /\ ManifestS3Path \notin written

\* C12 witness: of two uploaded files the first has been deleted, the removal
\* of the second has failed, and both uploads are in the store.
C12_Witness ==
    /\ pc = "failed"
    /\ err.msg = "cleaning up cache"
    /\ Len(files) = 2
    /\ removed = {files[1]}
    /\ \A i \in DOMAIN files : \E o \in store : o.key = BinaryS3Path(i)


\* C14: Patch leaves in memory, and then on disk, the config it read with
\* updater.endpoints replaced by the one url of the release file and
\* bundle.identifier followed by '.' and the branch with '/', ' ' and ':' turned
\* into '_'; nothing else of the config differs.
C14_PatchEffect ==
    LET url == s3_config.actual_domain \o "/" \o s3_config.bucket_subdirectory \o "/"
                   \o branch \o "/" \o to_variant_name(target) \o "/release-notes.json"
        old == disk_conf.tauri.bundle.identifier
        new == tauri_conf_json.tauri.bundle.identifier
        suffix == SubSeq(new, Len(old) + 2, Len(new))
    IN  /\ (cmd.name = "Patch" /\ pc = "save") =>
               /\ tauri_conf_json.tauri.updater.endpoints = <<url>>
               /\ new = old \o "." \o suffix
               /\ Len(suffix) = Len(branch)
               /\ \A i \in 1..Len(branch) :
                      CharAt(suffix, i) =
                          IF CharAt(branch, i) \in BadChars THEN "_" ELSE CharAt(branch, i)
               /\ tauri_conf_json.package = disk_conf.package
               /\ tauri_conf_json.rest = disk_conf.rest
               /\ tauri_conf_json.tauri.rest = disk_conf.tauri.rest
               /\ tauri_conf_json.tauri.updater.rest = disk_conf.tauri.updater.rest
               /\ tauri_conf_json.tauri.bundle.rest = disk_conf.tauri.bundle.rest
        /\ (cmd.name = "Patch" /\ pc = "done") =>
               /\ disk_conf = tauri_conf_json
               /\ disk_conf.tauri.updater.endpoints = <<url>>
               /\ disk_conf = ConfJson(<<url>>, disk_conf.tauri.bundle.identifier)

\* C14 witness: Patch has replaced two endpoints on a branch with a '/'.
C14_Witness ==
    /\ cmd.name = "Patch"
    /\ pc = "save"
    /\ Len(disk_conf.tauri.updater.endpoints) = 2
    /\ HasChar(branch, {"/"})
    /\ Len(tauri_conf_json.tauri.updater.endpoints) = 1

\* C15: an Upload run that follows a Patch run that wrote tauri.conf.json never
\* fails the validation: the one endpoint it reads is the url its put of the
\* release file returns, so once validated it goes on to write the config.
C15_PatchThenUploadValidates ==
    (prev.cmd.name = "Patch" /\ prev.pc = "done" /\ cmd.name = "Upload") =>
        /\ err.msg # "configuration error"
        /\ release_file_url # "" =>
               tauri_conf_json.tauri.updater.endpoints = <<release_file_url>>
        /\ (release_file_url # "" /\ pc # "validate") =>
               \/ pc \in {"save", "done"}
               \/ pc = "failed" /\ err.msg = "saving tauri.conf.json"

\* C15 witness: after Patch, an Upload on a branch with '/', ' ' and ':' has
\* validated and is done.
C15_Witness ==
    /\ prev.cmd.name = "Patch" /\ prev.pc = "done"
    /\ cmd.name = "Upload" /\ pc = "done"
    /\ HasChar(branch, {"/"}) /\ HasChar(branch, {" "}) /\ HasChar(branch, {":"})
    /\ release_file_url # ""


CanonicalPubDate(s) ==
    LET last == IF ends_with(s, "Z") THEN Len(s) - 1 ELSE Len(s) - 6
    IN  /\ CharAt(s, 11) = "T"
        /\ \/ ends_with(s, "Z")
           \/ /\ CharAt(s, Len(s) - 5) \in {"+", "-"}
              /\ SubSeq(s, Len(s) - 4, Len(s)) # "00:00"
        /\ \/ last = 19
           \/ last \in 21..29 /\ CharAt(s, last) # "0"

====
